---- MODULE Spec2Model ----
(***************************************************************************)
(* Model of src/handlers/channel.ts of Discordeno: the name/topic edit     *)
(* throttle of editChannel (editChannelNameTopicQueue,                     *)
(* editChannelProcessing, processEditChannelQueue) and the pure predicate  *)
(* channelOverwriteHasPermission.                                          *)
(*                                                                         *)
(* Time is kept relative to Date.now(): a record's timestamp field holds   *)
(* timestamp - now, and a timeout holds the delay it still has to wait.    *)
(* One unit of model time stands for 600000 / Window milliseconds.         *)
(* AdvanceTime lets one unit pass.  A timestamp that lies in the past is   *)
(* stored as -1 (the code only ever asks whether now > timestamp).         *)
(***************************************************************************)
EXTENDS Integers, Sequences, FiniteSets, TLC

VARIABLES
  editChannelNameTopicQueue, \* Map<channelID, EditChannelRequest>
  editChannelProcessing,     \* the module-level flag
  timeouts,                  \* pending setTimeout callbacks: delay left -> how many
  calls,                     \* the editChannel invocations: arguments per call id
  pc,                        \* where each call is: suspended, patched, queued, ...
  result,                    \* what the caller of each call got back
  sentAge,                   \* time since a call reached RequestManager.patch, -1: never
  fired,                     \* has a timeout callback run yet
  ticked,                    \* the calls last handed to editChannel by a timeout callback
  forwarded,                 \* per channel: throttled edits patched since its record was
                             \* created or last reset by processEditChannelQueue
  args,                      \* arguments of channelOverwriteHasPermission
  returned,                  \* its return values so far, <<>> before the first call
  gate,                      \* a gated call: what the bot may do, the content, the channel
  outcome,                   \* how the gated call ended, NoOutcome before it
  cached,                    \* the channels cache isChannelSynced reads
  synced                     \* what isChannelSynced returned, <<>> before the call

vars == <<editChannelNameTopicQueue, editChannelProcessing, timeouts, calls, pc,
          result, sentAge, fired, ticked, forwarded, args, returned, gate, outcome,
          cached, synced>>

schedVars == <<editChannelNameTopicQueue, editChannelProcessing, timeouts, calls, pc,
               result, sentAge, fired, ticked, forwarded>>

permVars == <<args, returned>>

gateVars == <<gate, outcome>>

syncVars == <<cached, synced>>

\* Bounds of the model.
MaxCalls == 3        \* calls made under Spec, suspended in any number
MaxSerialCalls == 6  \* calls made under SerialSpec, one after the other
MaxOverwrites == 2
MaxPermissions == 2
MaxResolves == 2     \* calls of channelOverwriteHasPermission on the same arguments

\* 600000 ms, in units of model time.
Window == 2

\* The burst the throttle lets through.
Burst == 2

Channels == {"A", "B"}
CallIds == 1..(MaxCalls + MaxSerialCalls)

\* Values of options.name / options.topic: absent, the empty string, a text.
Undefined == "undefined"
OptionsSet ==
  { [name |-> "x", topic |-> Undefined],
    [name |-> Undefined, topic |-> Undefined] }

\* JavaScript truthiness of a string-or-undefined value.
Truthy(v) == v # Undefined /\ v # ""

\* if (options.name || options.topic)
TouchesNameOrTopicAlways(options) == TRUE
TouchesNameOrTopic(options) == Truthy(options.name) \/ Truthy(options.topic)

\* The options set neither name nor topic.
SetsNeither(options) == options.name = Undefined /\ options.topic = Undefined

NoRequest == [amount |-> -1]
NoCall == [channelID |-> "", options |-> [name |-> Undefined, topic |-> Undefined]]

Min(a, b) == IF a < b THEN a ELSE b

\* editChannelNameTopicQueue.get(channelID)
GetRequestShared(queue, channelID) ==
  IF \E c \in Channels : queue[c] # NoRequest
  THEN queue[CHOOSE c \in Channels : queue[c] # NoRequest /\
                \A d \in Channels : queue[d] # NoRequest => queue[c].amount >= queue[d].amount]
  ELSE NoRequest
GetRequest(queue, channelID) == queue[channelID]

\* The new record of lines 367-373.
NewRequest(channelID) ==
  [channelID |-> channelID, amount |-> 1, timestamp |-> Window, items |-> <<>>]

EmptyTimeouts == [d \in 0..Window |-> 0]

\* setTimeout(() => processEditChannelQueue(), 600000)
SetTimeoutTwice(t) == [t EXCEPT ![Window] = @ + 2]
SetTimeout(t) == [t EXCEPT ![Window] = @ + 1]

(***************************************************************************)
(* processEditChannelQueue, lines 315-346, as a function of the map: the   *)
(* map after the forEach, the items handed to editChannel, the flag and    *)
(* the timeouts.  It is only used when editChannelProcessing is true.      *)
(***************************************************************************)
\* if (now > request.timestamp) return;
SkipsRequest(request) == request.timestamp < 0

\* The items one forEach callback shifts off and hands to editChannel.
Shifted(request) ==
  IF request = NoRequest \/ SkipsRequest(request) THEN <<>>
  ELSE SubSeq(request.items, 1, Min(2, Len(request.items)))

\* The record one forEach callback leaves behind.
ProcessRequest(request) ==
  IF request = NoRequest THEN NoRequest
  ELSE IF SkipsRequest(request) THEN request
  ELSE IF Len(request.items) = 0 THEN NoRequest
  ELSE [request EXCEPT !.amount = 0,
                       !.items = SubSeq(request.items,
                                        Min(2, Len(request.items)) + 1,
                                        Len(request.items))]

\* The patches counted per channel after a pass over the map: a record the
\* pass does not skip is deleted or has its amount set to 0 (line 325).
ResetByPass(queue, counts) ==
  [c \in Channels |->
     IF queue[c] # NoRequest /\ ~SkipsRequest(queue[c]) THEN 0 ELSE counts[c]]

processEditChannelQueueNoRearm(queue, t) ==
  LET after == [c \in Channels |-> ProcessRequest(queue[c])]
      size == Cardinality({c \in Channels : after[c] # NoRequest})
  IN [queue |-> after,
      resubmitted |-> UNION {{Shifted(queue[c])[i].call : i \in 1..Len(Shifted(queue[c]))} :
                               c \in Channels},
      processing |-> size # 0,
      timeouts |-> t]
processEditChannelQueue(queue, t) ==
  LET after == [c \in Channels |-> ProcessRequest(queue[c])]
      size == Cardinality({c \in Channels : after[c] # NoRequest})
  IN [queue |-> after,
      resubmitted |-> UNION {{Shifted(queue[c])[i].call : i \in 1..Len(Shifted(queue[c]))} :
                               c \in Channels},
      processing |-> size # 0,
      timeouts |-> IF size # 0 THEN SetTimeout(t) ELSE t]

\* The calls the scheduler does not make: nothing called, nothing returned.
NoOutcome == [error |-> "none", checked |-> "", transport |-> FALSE]
\* What cacheHandlers.get gives for an id that is not cached.
NotCached == [found |-> FALSE, parentID |-> Undefined, hasOverwrites |-> FALSE,
              overwrites |-> <<>>]

GateIdle ==
  /\ gate = [granted |-> {}, tts |-> FALSE, embed |-> FALSE, tooLong |-> FALSE,
             repliedUser |-> FALSE, channel |-> "none"]
  /\ outcome = NoOutcome

SyncIdle ==
  /\ cached = [channel |-> NotCached, parent |-> NotCached]
  /\ synced = <<>>

(***************************************************************************)
(* The scheduler.                                                          *)
(***************************************************************************)
Init ==
  /\ editChannelNameTopicQueue = [c \in Channels |-> NoRequest]
  /\ editChannelProcessing = FALSE
  /\ timeouts = EmptyTimeouts
  /\ calls = [i \in CallIds |-> NoCall]
  /\ pc = [i \in CallIds |-> "none"]
  /\ result = [i \in CallIds |-> "none"]
  /\ sentAge = [i \in CallIds |-> -1]
  /\ fired = FALSE
  /\ ticked = {}
  /\ forwarded = [c \in Channels |-> 0]
  /\ args = [guildID |-> "g", id |-> "u", overwrites |-> <<>>, permissions |-> <<>>]
  /\ returned = <<>>
  /\ GateIdle
  /\ SyncIdle

\* A caller calls editChannel(channelID, options): the call runs up to the
\* await of botHasChannelPermissions (lines 348-356).
EditChannel(i, channelID, options) ==
  /\ pc[i] = "none"
  /\ \A j \in CallIds : j < i => pc[j] # "none"
  /\ calls' = [calls EXCEPT ![i] = [channelID |-> channelID, options |-> options]]
  /\ pc' = [pc EXCEPT ![i] = "await"]
  /\ result' = [result EXCEPT ![i] = "pending"]
  /\ UNCHANGED <<editChannelNameTopicQueue, editChannelProcessing, timeouts,
                 sentAge, fired, ticked, forwarded, permVars, gateVars, syncVars>>

\* The scheduler state a failed permission check leaves behind (lines 357-361:
\* the throw comes before the map is read).
RejectCountsFirst(queue, channelID) ==
  IF queue[channelID] = NoRequest
  THEN [queue EXCEPT ![channelID] = NewRequest(channelID)]
  ELSE queue
Reject(queue, channelID) == queue

\* Errors.MISSING_MANAGE_CHANNELS, the error of line 360.
MISSING_MANAGE_CHANNELS == "MISSING_MANAGE_CHANNELS"

\* What the caller has once a call rejects: the rejection of a call the
\* caller awaits reaches the caller; the promise of a call made by
\* processEditChannelQueue (lines 331, 337) is dropped, so the caller keeps
\* what the deferred call gave.
DeliveredToCaller(at, was, error) == error
Delivered(at, was, error) == IF at = "await" THEN error ELSE was

\* botHasChannelPermissions resolved false: throw new Error(MISSING_MANAGE_CHANNELS).
\* The rejection of a call made by processEditChannelQueue is handled by nobody.
PermissionDenied(i) ==
  /\ pc[i] \in {"await", "resubmit"}
  /\ pc' = [pc EXCEPT ![i] = IF pc[i] = "await" THEN "rejected" ELSE "dropped"]
  /\ result' = [result EXCEPT ![i] = Delivered(pc[i], @, MISSING_MANAGE_CHANNELS)]
  /\ editChannelNameTopicQueue' = Reject(editChannelNameTopicQueue, calls[i].channelID)
  /\ UNCHANGED <<editChannelProcessing, timeouts, calls, sentAge, fired, ticked,
                 forwarded, permVars, gateVars, syncVars>>

\* Lines 363-386: does the call go on to RequestManager.patch (true), or does
\* it push its request and return (false).
ForwardsUpToBurst(request, options) ==
  \/ ~TouchesNameOrTopic(options)
  \/ request = NoRequest
  \/ request.amount <= Burst
Forwards(request, options) ==
  \/ ~TouchesNameOrTopic(options)
  \/ request = NoRequest
  \/ request.amount = 1

\* Lines 363-380: the map after the call has counted or pushed its request.
AdmissionCountsPushed(queue, channelID, options, item) ==
  LET request == GetRequest(queue, channelID) IN
  IF ~TouchesNameOrTopic(options) THEN queue
  ELSE IF request = NoRequest
    THEN [queue EXCEPT ![channelID] = NewRequest(channelID)]
  ELSE IF request.amount = 1
    THEN [queue EXCEPT ![channelID] = [request EXCEPT !.amount = 2, !.timestamp = Window]]
  ELSE [queue EXCEPT ![channelID] = [request EXCEPT !.amount = @ + 1,
                                                    !.items = Append(@, item)]]
AdmissionKeepsExpiry(queue, channelID, options, item) ==
  LET request == GetRequest(queue, channelID) IN
  IF ~TouchesNameOrTopic(options) THEN queue
  ELSE IF request = NoRequest
    THEN [queue EXCEPT ![channelID] = NewRequest(channelID)]
  ELSE IF request.amount = 1
    THEN [queue EXCEPT ![channelID] = [request EXCEPT !.amount = 2]]
  ELSE [queue EXCEPT ![channelID] = [request EXCEPT !.items = Append(@, item)]]
Admission(queue, channelID, options, item) ==
  LET request == GetRequest(queue, channelID) IN
  IF ~TouchesNameOrTopic(options) THEN queue
  ELSE IF request = NoRequest
    THEN [queue EXCEPT ![channelID] = NewRequest(channelID)]
  ELSE IF request.amount = 1
    THEN [queue EXCEPT ![channelID] = [request EXCEPT !.amount = 2, !.timestamp = Window]]
  ELSE [queue EXCEPT ![channelID] = [request EXCEPT !.items = Append(@, item)]]

\* botHasChannelPermissions resolved true: the rest of editChannel, lines 363-417,
\* runs without suspending; a call that pushes its request while
\* editChannelProcessing is false runs processEditChannelQueue before it returns.
PermissionGranted(i) ==
  /\ pc[i] \in {"await", "resubmit"}
  /\ LET channelID == calls[i].channelID
         options == calls[i].options
         request == GetRequest(editChannelNameTopicQueue, channelID)
         forwards == Forwards(request, options)
         counted == Admission(editChannelNameTopicQueue, channelID, options,
                              [channelID |-> channelID, call |-> i])
         starts == ~forwards /\ ~editChannelProcessing
         drained == processEditChannelQueue(counted, timeouts)
         again == IF starts THEN drained.resubmitted ELSE {}
     IN /\ editChannelNameTopicQueue' = IF starts THEN drained.queue ELSE counted
        /\ editChannelProcessing' = IF starts THEN drained.processing
                                    ELSE editChannelProcessing
        /\ timeouts' = IF starts THEN drained.timeouts ELSE timeouts
        /\ pc' = [j \in CallIds |->
                   IF j \in again THEN "resubmit"
                   ELSE IF j = i THEN (IF forwards THEN "sent" ELSE "queued")
                   ELSE pc[j]]
        /\ result' = [result EXCEPT ![i] =
                        IF pc[i] = "resubmit" THEN @
                        ELSE IF forwards THEN "response" ELSE "void"]
        /\ sentAge' = IF forwards THEN [sentAge EXCEPT ![i] = 0] ELSE sentAge
        /\ ticked' = ticked \ again
        /\ forwarded' =
             LET patched == IF forwards /\ TouchesNameOrTopic(options)
                            THEN [forwarded EXCEPT ![channelID] =
                                    IF request = NoRequest THEN 1 ELSE @ + 1]
                            ELSE forwarded
             IN IF starts THEN ResetByPass(counted, patched) ELSE patched
  /\ UNCHANGED <<calls, fired, permVars, gateVars, syncVars>>

\* A timeout set at line 342 is due and its callback runs processEditChannelQueue.
Timeout ==
  /\ timeouts[0] > 0
  /\ LET rest == [timeouts EXCEPT ![0] = @ - 1]
         drained == processEditChannelQueue(editChannelNameTopicQueue, rest)
         runs == editChannelProcessing
     IN /\ editChannelNameTopicQueue' = IF runs THEN drained.queue
                                        ELSE editChannelNameTopicQueue
        /\ editChannelProcessing' = IF runs THEN drained.processing ELSE FALSE
        /\ timeouts' = IF runs THEN drained.timeouts ELSE rest
        /\ pc' = [j \in CallIds |->
                   IF runs /\ j \in drained.resubmitted THEN "resubmit" ELSE pc[j]]
        /\ ticked' = IF runs THEN ticked \cup drained.resubmitted ELSE ticked
        /\ forwarded' = IF runs THEN ResetByPass(editChannelNameTopicQueue, forwarded)
                        ELSE forwarded
  /\ fired' = TRUE
  /\ UNCHANGED <<calls, result, sentAge, permVars, gateVars, syncVars>>

\* One unit of time passes: every timestamp and every pending delay is one
\* unit nearer (a timeout may run late, never early).
Elapse(request) ==
  IF request = NoRequest \/ request.timestamp < 0 THEN request
  ELSE [request EXCEPT !.timestamp = @ - 1]

AdvanceTime ==
  /\ editChannelNameTopicQueue' =
       [c \in Channels |-> Elapse(editChannelNameTopicQueue[c])]
  /\ timeouts' = [d \in 0..Window |->
                   IF d = 0 THEN timeouts[0] + timeouts[1]
                   ELSE IF d < Window THEN timeouts[d + 1] ELSE 0]
  /\ sentAge' = [i \in CallIds |->
                  IF sentAge[i] >= 0 /\ sentAge[i] < Window THEN sentAge[i] + 1
                  ELSE sentAge[i]]
  /\ UNCHANGED <<editChannelProcessing, calls, pc, result, fired, ticked,
                 forwarded, permVars, gateVars, syncVars>>

\* RequestManager.patch rejects for a call made by processEditChannelQueue
\* (the caller got undefined when the request was pushed).  For a call the
\* caller awaits, "response" stands for whatever the patch settles to.
PatchRejected(i) ==
  /\ pc[i] = "sent" /\ result[i] = "void"
  /\ pc' = [pc EXCEPT ![i] = "failed"]
  /\ result' = [result EXCEPT ![i] = Delivered("resubmit", @, "error")]
  /\ UNCHANGED <<editChannelNameTopicQueue, editChannelProcessing, timeouts, calls,
                 sentAge, fired, ticked, forwarded, permVars, gateVars, syncVars>>

Suspended == {j \in CallIds : pc[j] = "await"}

Next ==
  \/ \E i \in 1..MaxCalls, channelID \in Channels, options \in OptionsSet :
       EditChannel(i, channelID, options)
  \/ \E i \in CallIds : PermissionDenied(i)
  \/ \E i \in CallIds : PatchRejected(i)
  \/ \E i \in CallIds : PermissionGranted(i)
  \/ Timeout
  \/ AdvanceTime

Spec == Init /\ [][Next]_vars

\* Callers that edit name or topic one call after the other, the permission
\* check always passing.
ThrottledOptions == {options \in OptionsSet : TouchesNameOrTopic(options)}

SerialNext ==
  \/ \E i \in 1..MaxSerialCalls, channelID \in Channels, options \in ThrottledOptions :
       Suspended = {} /\ EditChannel(i, channelID, options)
  \/ \E i \in CallIds : PermissionGranted(i)
  \/ Timeout
  \/ AdvanceTime

SerialSpec == Init /\ [][SerialNext]_vars

\* The same callers, with time that keeps advancing, timeouts that keep
\* running and permission checks that resolve.
FairSerialSpec ==
  /\ SerialSpec
  /\ WF_vars(AdvanceTime)
  /\ WF_vars(Timeout)
  /\ \A i \in CallIds : WF_vars(PermissionGranted(i))

(***************************************************************************)
(* channelOverwriteHasPermission, lines 23-39.  A RawOverwrite is its id   *)
(* and the numbers its allow and deny strings denote (BigInt(...)); a      *)
(* member of Permissions is a single bit.                                  *)
(***************************************************************************)
PermissionBits == {1, 2}
Masks == 0..3
OverwriteIds == {"u", "g", "r"}

\* BigInt(a) & BigInt(b)
RECURSIVE BitAnd(_, _)
BitAnd(a, b) ==
  IF a = 0 \/ b = 0 THEN 0
  ELSE (a % 2) * (b % 2) + 2 * BitAnd(a \div 2, b \div 2)

\* overwrites.find((perm) => perm.id === id): the first such entry, or none.
NotFound == [id |-> ""]
RECURSIVE Find(_, _)
Find(overwrites, id) ==
  IF overwrites = <<>> THEN NotFound
  ELSE IF Head(overwrites).id = id THEN Head(overwrites)
  ELSE Find(Tail(overwrites), id)

\* overwrites.find(id) || overwrites.find(guildID)
FindOverwriteNoFallback(guildID, id, overwrites) == Find(overwrites, id)
FindOverwrite(guildID, id, overwrites) ==
  IF Find(overwrites, id) # NotFound THEN Find(overwrites, id)
  ELSE Find(overwrites, guildID)

\* The callback of permissions.every, lines 32-38.
PermissionPassesAllowFirst(overwrite, perm) ==
  IF overwrite # NotFound
  THEN IF BitAnd(overwrite.allow, perm) # 0 THEN TRUE
       ELSE FALSE
  ELSE FALSE
PermissionPasses(overwrite, perm) ==
  IF overwrite # NotFound
  THEN IF BitAnd(overwrite.deny, perm) # 0 THEN FALSE
       ELSE IF BitAnd(overwrite.allow, perm) # 0 THEN TRUE
       ELSE FALSE
  ELSE FALSE

\* permissions.every(...)
RECURSIVE Every(_, _)
Every(permissions, overwrite) ==
  IF permissions = <<>> THEN TRUE
  ELSE IF ~PermissionPasses(overwrite, Head(permissions)) THEN FALSE
  ELSE Every(Tail(permissions), overwrite)

channelOverwriteHasPermissionOrRoot(guildID, id, overwrites, permissions) ==
  \/ Every(permissions, FindOverwrite(guildID, id, overwrites))
  \/ Every(permissions, Find(overwrites, guildID))
channelOverwriteHasPermission(guildID, id, overwrites, permissions) ==
  Every(permissions, FindOverwrite(guildID, id, overwrites))

\* The inputs: lists of overwrites with distinct ids, lists of permissions.
SeqsUpTo(S, n) == UNION {[1..k -> S] : k \in 0..n}

OverwriteLists ==
  {l \in SeqsUpTo([id : OverwriteIds, allow : Masks, deny : Masks], MaxOverwrites) :
     \A a, b \in 1..Len(l) : a # b => l[a].id # l[b].id}

ArgSet ==
  [guildID : {"g"}, id : {"u", "g"}, overwrites : OverwriteLists,
   permissions : SeqsUpTo(PermissionBits, MaxPermissions)]

PermInit ==
  /\ editChannelNameTopicQueue = [c \in Channels |-> NoRequest]
  /\ editChannelProcessing = FALSE
  /\ timeouts = EmptyTimeouts
  /\ calls = [i \in CallIds |-> NoCall]
  /\ pc = [i \in CallIds |-> "none"]
  /\ result = [i \in CallIds |-> "none"]
  /\ sentAge = [i \in CallIds |-> -1]
  /\ fired = FALSE
  /\ ticked = {}
  /\ forwarded = [c \in Channels |-> 0]
  /\ args \in ArgSet
  /\ returned = <<>>
  /\ GateIdle
  /\ SyncIdle

\* The arguments after a call: find and every only read their arrays.
ArgsAfterConsumed(a) == [a EXCEPT !.permissions = <<>>]
ArgsAfter(a) == a

\* The call channelOverwriteHasPermission(guildID, id, overwrites, permissions),
\* made up to MaxResolves times with the same argument objects; returned
\* collects the results.
Resolve ==
  /\ Len(returned) < MaxResolves
  /\ returned' = Append(returned,
                        channelOverwriteHasPermission(args.guildID, args.id,
                                                      args.overwrites, args.permissions))
  /\ args' = ArgsAfter(args)
  /\ UNCHANGED <<schedVars, gateVars, syncVars>>

PermNext == Resolve

PermSpec == PermInit /\ [][PermNext]_vars

(***************************************************************************)
(* The permission gates of sendMessage (lines 117-226) and followChannel   *)
(* (lines 420-442).  botHasChannelPermissions(channelID, [p]) is true when *)
(* p is among the permissions the bot has in the channel (gate.granted).   *)
(* An outcome is the error thrown, the permission whose check failed ("" if *)
(* the error is not a failed permission check) and whether RequestManager  *)
(* was called.                                                             *)
(***************************************************************************)
PermissionNames ==
  {"SEND_MESSAGES", "SEND_TTS_MESSAGES", "EMBED_LINKS", "READ_MESSAGE_HISTORY",
   "MANAGE_WEBHOOKS", "MANAGE_CHANNELS"}

\* The member of Errors for a missing permission, as the handlers of this file
\* use them (lines 63, 131, 142, 153, 297, 360).
MissingError(perm) ==
  CASE perm = "SEND_MESSAGES" -> "MISSING_SEND_MESSAGES"
    [] perm = "SEND_TTS_MESSAGES" -> "MISSING_SEND_TTS_MESSAGE"
    [] perm = "EMBED_LINKS" -> "MISSING_EMBED_LINKS"
    [] perm = "READ_MESSAGE_HISTORY" -> "MISSING_READ_MESSAGE_HISTORY"
    [] perm = "MANAGE_WEBHOOKS" -> "MISSING_MANAGE_WEBHOOKS"
    [] perm = "MANAGE_CHANNELS" -> MISSING_MANAGE_CHANNELS

Thrown(error, checked) == [error |-> error, checked |-> checked, transport |-> FALSE]
Requested == [error |-> "", checked |-> "", transport |-> TRUE]

botHasChannelPermissions(g, perm) == perm \in g.granted

\* followChannel: the check of MANAGE_WEBHOOKS throws Errors.MISSING_MANAGE_CHANNELS.
followChannel(g) ==
  IF ~botHasChannelPermissions(g, "MANAGE_WEBHOOKS")
  THEN Thrown(MISSING_MANAGE_CHANNELS, "MANAGE_WEBHOOKS")
  ELSE Requested

\* sendMessage, in the order of its checks; the check of READ_MESSAGE_HISTORY
\* for mentions.repliedUser throws Errors.MISSING_SEND_MESSAGES (line 193).
sendMessage(g) ==
  IF ~botHasChannelPermissions(g, "SEND_MESSAGES")
    THEN Thrown("MISSING_SEND_MESSAGES", "SEND_MESSAGES")
  ELSE IF g.tts /\ ~botHasChannelPermissions(g, "SEND_TTS_MESSAGES")
    THEN Thrown("MISSING_SEND_TTS_MESSAGE", "SEND_TTS_MESSAGES")
  ELSE IF g.embed /\ ~botHasChannelPermissions(g, "EMBED_LINKS")
    THEN Thrown("MISSING_EMBED_LINKS", "EMBED_LINKS")
  ELSE IF g.tooLong
    THEN Thrown("MESSAGE_MAX_LENGTH", "")
  ELSE IF g.repliedUser /\ ~botHasChannelPermissions(g, "READ_MESSAGE_HISTORY")
    THEN Thrown("MISSING_SEND_MESSAGES", "READ_MESSAGE_HISTORY")
  ELSE IF g.channel = "none"
    THEN Thrown("CHANNEL_NOT_FOUND", "")
  ELSE IF g.channel # "text"
    THEN Thrown("CHANNEL_NOT_TEXT_BASED", "")
  ELSE Requested

GateSet ==
  [granted : SUBSET PermissionNames, tts : BOOLEAN, embed : BOOLEAN,
   tooLong : BOOLEAN, repliedUser : BOOLEAN, channel : {"none", "text", "voice"}]

GateInit ==
  /\ editChannelNameTopicQueue = [c \in Channels |-> NoRequest]
  /\ editChannelProcessing = FALSE
  /\ timeouts = EmptyTimeouts
  /\ calls = [i \in CallIds |-> NoCall]
  /\ pc = [i \in CallIds |-> "none"]
  /\ result = [i \in CallIds |-> "none"]
  /\ sentAge = [i \in CallIds |-> -1]
  /\ fired = FALSE
  /\ ticked = {}
  /\ forwarded = [c \in Channels |-> 0]
  /\ args = [guildID |-> "g", id |-> "u", overwrites |-> <<>>, permissions |-> <<>>]
  /\ returned = <<>>
  /\ gate \in GateSet
  /\ outcome = NoOutcome
  /\ SyncIdle

FollowChannel ==
  /\ outcome = NoOutcome
  /\ outcome' = followChannel(gate)
  /\ UNCHANGED <<gate, schedVars, permVars, syncVars>>

SendMessage ==
  /\ outcome = NoOutcome
  /\ outcome' = sendMessage(gate)
  /\ UNCHANGED <<gate, schedVars, permVars, syncVars>>

GateNext == FollowChannel \/ SendMessage

GateSpec == GateInit /\ [][GateNext]_vars

(***************************************************************************)
(* isChannelSynced, lines 449-469.  cached.channel is what the cache holds *)
(* for channelID and cached.parent what it holds for channel.parentID; a   *)
(* channel's permission_overwrites is optional (hasOverwrites).  The       *)
(* return value is "true", "false" or "undefined".                         *)
(***************************************************************************)
SyncMasks == 0..1

Bool(b) == IF b THEN "true" ELSE "false"

\* The callback of permission_overwrites.every, lines 456-467.
OverwriteSynced(overwrite, parentChannel) ==
  LET permission == IF parentChannel.hasOverwrites
                    THEN Find(parentChannel.overwrites, overwrite.id)
                    ELSE NotFound
  IN IF permission = NotFound THEN FALSE
     ELSE IF overwrite.allow # permission.allow \/ overwrite.deny # permission.deny
       THEN FALSE
     ELSE TRUE

isChannelSynced(cache) ==
  LET channel == cache.channel
      parentChannel == cache.parent
  IN IF ~channel.found \/ ~Truthy(channel.parentID) THEN "false"
     ELSE IF ~parentChannel.found THEN "false"
     ELSE IF ~channel.hasOverwrites THEN "undefined"
     ELSE Bool(\A k \in 1..Len(channel.overwrites) :
                 OverwriteSynced(channel.overwrites[k], parentChannel))

SyncOverwriteLists ==
  {l \in SeqsUpTo([id : OverwriteIds, allow : SyncMasks, deny : SyncMasks], MaxOverwrites) :
     \A a, b \in 1..Len(l) : a # b => l[a].id # l[b].id}

CachedChannels(parentIDs) ==
  {NotCached} \cup
  [found : {TRUE}, parentID : parentIDs, hasOverwrites : {TRUE},
   overwrites : SyncOverwriteLists] \cup
  [found : {TRUE}, parentID : parentIDs, hasOverwrites : {FALSE}, overwrites : {<<>>}]

SyncInit ==
  /\ editChannelNameTopicQueue = [c \in Channels |-> NoRequest]
  /\ editChannelProcessing = FALSE
  /\ timeouts = EmptyTimeouts
  /\ calls = [i \in CallIds |-> NoCall]
  /\ pc = [i \in CallIds |-> "none"]
  /\ result = [i \in CallIds |-> "none"]
  /\ sentAge = [i \in CallIds |-> -1]
  /\ fired = FALSE
  /\ ticked = {}
  /\ forwarded = [c \in Channels |-> 0]
  /\ args = [guildID |-> "g", id |-> "u", overwrites |-> <<>>, permissions |-> <<>>]
  /\ returned = <<>>
  /\ GateIdle
  /\ cached \in [channel : CachedChannels({Undefined, "p"}),
                  parent : CachedChannels({Undefined})]
  /\ synced = <<>>

IsChannelSynced ==
  /\ synced = <<>>
  /\ synced' = <<isChannelSynced(cached)>>
  /\ UNCHANGED <<cached, schedVars, permVars, gateVars>>

SyncNext == IsChannelSynced

SyncSpec == SyncInit /\ [][SyncNext]_vars

(***************************************************************************)
(* Vocabulary of the properties.                                           *)
(***************************************************************************)
Chan(i) == calls[i].channelID
Throttled(i) == TouchesNameOrTopic(calls[i].options)

\* Call i passes its permission check in this step.
Passes(i) == pc[i] = "await" /\ pc'[i] \notin {"await", "rejected"}

\* A call made by processEditChannelQueue passes its permission check in this step.
PassesAgain(i) == pc[i] = "resubmit" /\ pc'[i] \notin {"resubmit", "dropped"}

\* The callers' throttled calls to channelID that have passed the check so far.
AdmittedTo(channelID) ==
  {j \in CallIds : /\ Chan(j) = channelID /\ Throttled(j)
                   /\ pc[j] \in {"sent", "queued", "resubmit", "dropped"}}

\* So far only channelID has been sent edits of name or topic.
OnlyEdits(channelID) ==
  \A j \in CallIds : pc[j] # "none" /\ Throttled(j) => Chan(j) = channelID

\* A timeout callback runs in this step.
TimeoutStep == timeouts'[0] < timeouts[0]

\* The ids of the requests in a record's queue.
Queued(request) ==
  IF request = NoRequest THEN {}
  ELSE {request.items[k].call : k \in 1..Len(request.items)}

C2_AtMostTwoPerWindow ==
  \A c \in Channels :
    Cardinality({i \in CallIds : /\ pc[i] = "sent" /\ Chan(i) = c /\ Throttled(i)
                                 /\ sentAge[i] < Window}) <= Burst

\* C8: a throttled edit that passes the check while its resource has no
\* record or a record with amount 1 is patched in that step and is in no
\* queue, whatever the records of the other resources are.
C8_OtherResourceNotDeferred ==
  [][ \A i \in CallIds :
        ( /\ Passes(i) \/ PassesAgain(i)
          /\ Throttled(i)
          /\ \/ editChannelNameTopicQueue[Chan(i)] = NoRequest
             \/ editChannelNameTopicQueue[Chan(i)].amount = 1 ) =>
        /\ pc'[i] = "sent"
        /\ \A c \in Channels : i \notin Queued(editChannelNameTopicQueue'[c])
    ]_vars

\* A throttled edit patched just now while another resource has had amount 2
\* since before, with a request waiting in its queue.
C8_Witness ==
  \E i \in CallIds, a \in Channels :
    /\ pc[i] = "sent" /\ Throttled(i) /\ sentAge[i] = 0 /\ result[i] = "response"
    /\ a # Chan(i)
    /\ editChannelNameTopicQueue[a] # NoRequest
    /\ editChannelNameTopicQueue[a].amount = 2
    /\ editChannelNameTopicQueue[a].timestamp < Window
    /\ Len(editChannelNameTopicQueue[a].items) >= 1

\* C9: a call whose options set neither name nor topic is patched in the step
\* in which it passes the check, and that step changes neither the map of
\* records nor editChannelProcessing (nor the timeouts).
C9_UnthrottledPassesThrough ==
  [][ \A i \in CallIds :
        (Passes(i) /\ SetsNeither(calls[i].options)) =>
          /\ pc'[i] = "sent" /\ result'[i] = "response"
          /\ editChannelNameTopicQueue' = editChannelNameTopicQueue
          /\ editChannelProcessing' = editChannelProcessing
          /\ timeouts' = timeouts
    ]_vars

\* An unthrottled call patched just now on a resource whose record has had
\* amount 2 since before.
C9_Witness ==
  \E i \in CallIds :
    /\ pc[i] = "sent" /\ SetsNeither(calls[i].options) /\ sentAge[i] = 0
    /\ result[i] = "response"
    /\ editChannelNameTopicQueue[Chan(i)] # NoRequest
    /\ editChannelNameTopicQueue[Chan(i)].amount = 2
    /\ editChannelNameTopicQueue[Chan(i)].timestamp < Window

\* C10: a call that fails the permission check gets the error, and the step
\* patches nothing and changes no record, no queue, not the flag and no timeout.
C10_DeniedLeavesSchedulerAlone ==
  [][ \A i \in CallIds :
        (pc[i] = "await" /\ pc'[i] = "rejected") =>
          /\ result'[i] = MISSING_MANAGE_CHANNELS
          /\ \A j \in CallIds : pc'[j] = "sent" => pc[j] = "sent"
          /\ editChannelNameTopicQueue' = editChannelNameTopicQueue
          /\ editChannelProcessing' = editChannelProcessing
          /\ timeouts' = timeouts
    ]_vars

\* A rejected throttled call on a resource that has no record, and another on
\* a resource whose record still has amount 1.
C10_Witness ==
  /\ \E i \in CallIds :
       /\ pc[i] = "rejected" /\ result[i] = MISSING_MANAGE_CHANNELS /\ Throttled(i)
       /\ editChannelNameTopicQueue[Chan(i)] = NoRequest
  /\ \E i \in CallIds :
       /\ pc[i] = "rejected" /\ result[i] = MISSING_MANAGE_CHANNELS /\ Throttled(i)
       /\ editChannelNameTopicQueue[Chan(i)] # NoRequest
       /\ editChannelNameTopicQueue[Chan(i)].amount = 1

\* The calls of processEditChannelQueue to editChannel for channelID that are
\* still suspended.
InFlight(channelID) == {j \in CallIds : pc[j] = "resubmit" /\ Chan(j) = channelID}

\* C3: a drain timeout that finds n >= 1 requests in a resource's queue hands
\* the oldest min(2, n) to editChannel and leaves the other n - min(2, n)
\* queued in their order; and a request it handed over is patched when its call
\* passes the check while the record's amount is below 2.
C3_DrainForwardsOldestTwo ==
  [][ /\ (TimeoutStep /\ editChannelProcessing) =>
           \A c \in Channels :
             LET request == editChannelNameTopicQueue[c]
                 after == editChannelNameTopicQueue'[c]
             IN (request # NoRequest /\ Len(request.items) >= 1) =>
                  LET n == Len(request.items)
                      k == Min(2, n)
                  IN /\ after # NoRequest
                     /\ after.items = SubSeq(request.items, k + 1, n)
                     /\ \A m \in 1..k : pc'[request.items[m].call] = "resubmit"
      /\ \A i \in ticked :
           ( /\ PassesAgain(i)
             /\ editChannelNameTopicQueue[Chan(i)] # NoRequest
             /\ editChannelNameTopicQueue[Chan(i)].amount < 2 ) =>
           pc'[i] = "sent"
    ]_vars

\* C4: a drain timeout that finds exactly one request in a resource's queue
\* hands it to editChannel and empties the queue; that request, the only one
\* under way for the resource, is patched and not pushed back when its call
\* passes the check; and a drain timeout that finds the queue empty and
\* nothing under way removes the record.
C4_SingleItemForwardedRecordRemoved ==
  [][ /\ (TimeoutStep /\ editChannelProcessing) =>
           \A c \in Channels :
             LET request == editChannelNameTopicQueue[c]
                 after == editChannelNameTopicQueue'[c]
             IN /\ (request # NoRequest /\ Len(request.items) = 1) =>
                     /\ pc'[request.items[1].call] = "resubmit"
                     /\ after # NoRequest => after.items = <<>>
                /\ (request # NoRequest /\ Len(request.items) = 0 /\ InFlight(c) = {}) =>
                     after = NoRequest
      /\ \A i \in ticked :
           ( /\ PassesAgain(i)
             /\ InFlight(Chan(i)) = {i}
             /\ editChannelNameTopicQueue[Chan(i)] # NoRequest
             /\ editChannelNameTopicQueue[Chan(i)].items = <<>>
             /\ editChannelNameTopicQueue[Chan(i)].amount = 0 ) =>
           /\ pc'[i] = "sent"
           /\ i \notin Queued(editChannelNameTopicQueue'[Chan(i)])
    ]_vars

\* C5: every call that was deferred (its caller got no result) is patched in
\* the end.
C5_DeferredEventuallyForwarded ==
  \A i \in 1..MaxSerialCalls : (result[i] = "void") ~> (pc[i] = "sent")

\* Bit perm is set in mask.
HasBit(mask, perm) == (mask \div perm) % 2 = 1

\* The entries of the list that the lookup can match: the one of the
\* principal, else the one of the guild.
MatchedEntries ==
  LET own == {k \in 1..Len(args.overwrites) : args.overwrites[k].id = args.id}
      root == {k \in 1..Len(args.overwrites) : args.overwrites[k].id = args.guildID}
  IN {args.overwrites[k] : k \in IF own # {} THEN own ELSE root}

Required == {args.permissions[k] : k \in 1..Len(args.permissions)}

Grants(entry) == \A perm \in Required : HasBit(entry.allow, perm) /\ ~HasBit(entry.deny, perm)

\* C6 as stated: the result is true exactly if an entry is matched and it
\* allows and does not deny every required permission.
C6_TrueIffMatchedEntryGrantsAll ==
  returned # <<>> => (returned[1] <=> \E entry \in MatchedEntries : Grants(entry))

\* C6 amended: with at least one required permission the result is true
\* exactly if an entry is matched and it allows and does not deny every
\* required permission; with no required permission the result is true.
C6_TrueIffNothingRequiredOrGranted ==
  returned # <<>> =>
    (returned[1] <=> (Required = {} \/ \E entry \in MatchedEntries : Grants(entry)))

\* True through the guild's entry, the principal having none, two permissions
\* required and another entry in the list.
C6_Witness ==
  /\ returned = <<TRUE>>
  /\ Cardinality(Required) = 2
  /\ args.id # args.guildID
  /\ Len(args.overwrites) = 2
  /\ \A k \in 1..Len(args.overwrites) : args.overwrites[k].id # args.id
  /\ \E k \in 1..Len(args.overwrites) : args.overwrites[k].id = args.guildID

\* C7: a required permission that the matched entry both allows and denies
\* makes the result false.
C7_DenyOverridesAllow ==
  (returned # <<>> /\
     \E entry \in MatchedEntries, perm \in Required :
        HasBit(entry.allow, perm) /\ HasBit(entry.deny, perm))
  => returned[1] = FALSE

\* The matched entry allows both required permissions and denies one of them.
C7_Witness ==
  /\ returned = <<FALSE>>
  /\ Cardinality(Required) = 2
  /\ \E entry \in MatchedEntries :
       /\ \A perm \in Required : HasBit(entry.allow, perm)
       /\ Cardinality({perm \in Required : HasBit(entry.deny, perm)}) = 1

\* The record of channelID exists, its queue is empty and its timestamp has passed.
ExpiredAndEmpty(channelID) ==
  /\ editChannelNameTopicQueue[channelID] # NoRequest
  /\ editChannelNameTopicQueue[channelID].items = <<>>
  /\ editChannelNameTopicQueue[channelID].timestamp < 0

\* C11: a record whose queue is empty and whose timestamp has passed is
\* removed from the map in the end, whether or not its resource is edited again.
C11_ExpiredEmptyRecordRemoved ==
  \A c \in Channels :
    ExpiredAndEmpty(c) ~> (editChannelNameTopicQueue[c] = NoRequest)

\* The number of timeouts that are set and have not run.
Scheduled == timeouts[0] + timeouts[1] + timeouts[2]

\* Call i passes its check in this step, pushes its request and returns.
Defers(i) ==
  /\ PermissionGranted(i)
  /\ ~Forwards(GetRequest(editChannelNameTopicQueue, Chan(i)), calls[i].options)

MapEmpty(queue) == \A c \in Channels : queue[c] = NoRequest

\* C12: at most one drain timeout is set at any time; editChannelProcessing
\* is false at first, is true exactly while a timeout is set, becomes true
\* only in a step that pushes a request while it is false (and does become
\* true then, with one timeout set), becomes false only in a timeout callback
\* that leaves the map empty and sets no timeout, and a timeout callback that
\* leaves a record in the map while the flag is true sets the next timeout.
C12_SingleDrainTimer ==
  /\ ~editChannelProcessing
  /\ [](Scheduled <= 1 /\ (editChannelProcessing <=> Scheduled = 1))
  /\ [][ /\ (~editChannelProcessing /\ editChannelProcessing') =>
                \E i \in CallIds : Defers(i)
         /\ \A i \in CallIds :
                (Defers(i) /\ ~editChannelProcessing) =>
                  (editChannelProcessing' /\ Scheduled' = 1)
         /\ (editChannelProcessing /\ ~editChannelProcessing') =>
                (TimeoutStep /\ MapEmpty(editChannelNameTopicQueue') /\ Scheduled' = 0)
         /\ (TimeoutStep /\ editChannelProcessing) =>
                IF MapEmpty(editChannelNameTopicQueue')
                THEN ~editChannelProcessing' /\ Scheduled' = 0
                ELSE editChannelProcessing' /\ Scheduled' = 1
     ]_vars

\* A drain cycle that was started by a deferred request, has run a timeout and
\* has ended: the map is empty, the flag is false and no timeout is set.
C12_Witness ==
  /\ fired /\ ~editChannelProcessing /\ Scheduled = 0
  /\ MapEmpty(editChannelNameTopicQueue)
  /\ \E i \in CallIds : result[i] = "void"

\* C13: a gated call whose permission check fails throws the error that
\* names the permission that was checked, and does not reach RequestManager.
C13_ErrorNamesCheckedPermission ==
  (outcome # NoOutcome /\ outcome.checked # "") =>
    (outcome.error = MissingError(outcome.checked) /\ ~outcome.transport)

OverwritesOf(channel) ==
  IF channel.hasOverwrites
  THEN {channel.overwrites[k] : k \in 1..Len(channel.overwrites)}
  ELSE {}

\* The channel is cached with a parent id, the parent is cached, and every
\* overwrite of the channel has one of the same id, allow and deny in the parent.
SyncedWithParent ==
  /\ cached.channel.found /\ cached.channel.parentID # Undefined
  /\ cached.parent.found
  /\ \A overwrite \in OverwritesOf(cached.channel) :
       \E permission \in OverwritesOf(cached.parent) :
         /\ permission.id = overwrite.id
         /\ permission.allow = overwrite.allow
         /\ permission.deny = overwrite.deny

\* C15: isChannelSynced returns true if the channel is synced with its parent
\* in that sense, and returns false in every other case.
C15_SyncedIffOverwritesMatchParent ==
  synced # <<>> => synced[1] = Bool(SyncedWithParent)

\* C16: a throttled call that passes its check is pushed on the queue only
\* if its record has amount 2; with amount 0 the call, be it made by a caller
\* or by processEditChannelQueue, is patched in that step and amount becomes 1.
C16_CountZeroAdmits ==
  [][ \A i \in CallIds :
        LET request == editChannelNameTopicQueue[Chan(i)]
            after == editChannelNameTopicQueue'[Chan(i)]
        IN (PermissionGranted(i) /\ Throttled(i) /\ request # NoRequest) =>
             /\ request.amount # 2 => pc'[i] = "sent"
             /\ request.amount = 0 => (after # NoRequest /\ after.amount = 1)
    ]_vars

\* C17: a throttled call that passes its check while its resource has no
\* record creates the record with amount 1, a timestamp of now + 600000 and an
\* empty queue; one that finds amount 1 sets amount to 2 and the timestamp to
\* now + 600000 and leaves the queue as it is; either call is patched in that
\* step, and the step changes neither editChannelProcessing nor the timeouts.
C17_IdleAndOpenOneForward ==
  [][ \A i \in CallIds :
        LET request == editChannelNameTopicQueue[Chan(i)]
            after == editChannelNameTopicQueue'[Chan(i)]
        IN (PermissionGranted(i) /\ Throttled(i) /\
              (request = NoRequest \/ request.amount = 1)) =>
             /\ IF request = NoRequest
                THEN after = [channelID |-> Chan(i), amount |-> 1,
                              timestamp |-> Window, items |-> <<>>]
                ELSE after = [channelID |-> Chan(i), amount |-> 2,
                              timestamp |-> Window, items |-> request.items]
             /\ pc'[i] = "sent"
             /\ editChannelProcessing' = editChannelProcessing
             /\ timeouts' = timeouts
    ]_vars

\* A second edit patched some time after the first: the record has amount 2
\* and a timestamp one whole window ahead.
C17_Witness ==
  \E i, j \in CallIds :
    /\ Chan(i) = Chan(j) /\ Throttled(i) /\ Throttled(j)
    /\ pc[i] = "sent" /\ sentAge[i] = 1
    /\ pc[j] = "sent" /\ sentAge[j] = 0
    /\ editChannelNameTopicQueue[Chan(i)] # NoRequest
    /\ editChannelNameTopicQueue[Chan(i)].amount = 2
    /\ editChannelNameTopicQueue[Chan(i)].timestamp = Window

\* The entries of the list whose id is the principal's.
OwnEntries == {k \in 1..Len(args.overwrites) : args.overwrites[k].id = args.id}

\* C18: when the list has an entry for the principal, the result is decided by
\* that entry alone: it is true exactly if that entry allows and does not deny
\* every required permission, whatever the guild's entry says.
C18_PrincipalEntryDecides ==
  (returned # <<>> /\ OwnEntries # {}) =>
    \A k \in OwnEntries : returned[1] <=> Grants(args.overwrites[k])

\* False although the guild's entry allows the required permission: the
\* principal's entry neither allows nor denies it.
C18_Witness ==
  /\ returned # <<>> /\ returned[1] = FALSE
  /\ args.id # args.guildID
  /\ \E perm \in Required, k \in OwnEntries, g \in 1..Len(args.overwrites) :
       /\ ~HasBit(args.overwrites[k].allow, perm)
       /\ ~HasBit(args.overwrites[k].deny, perm)
       /\ args.overwrites[g].id = args.guildID
       /\ Grants(args.overwrites[g])

\* A call made by processEditChannelQueue fails in this step: its permission
\* check, or its patch.
FailsAgain(i) ==
  \/ pc[i] = "resubmit" /\ pc'[i] = "dropped"
  \/ pc[i] = "sent" /\ pc'[i] = "failed"

C20_CountIsForwardedSinceReset ==
  \A c \in Channels :
    editChannelNameTopicQueue[c] # NoRequest =>
      /\ editChannelNameTopicQueue[c].amount \in {0, 1, 2}
      /\ editChannelNameTopicQueue[c].amount = forwarded[c]

\* Two throttled edits of a channel patched, with one more edit of it that
\* was not counted: patched without name or topic, or rejected.
C20_Witness ==
  \E c \in Channels, i \in CallIds :
    /\ editChannelNameTopicQueue[c] # NoRequest
    /\ editChannelNameTopicQueue[c].amount = 2 /\ forwarded[c] = 2
    /\ Chan(i) = c
    /\ \/ pc[i] = "sent" /\ ~Throttled(i)
       \/ pc[i] = "rejected" /\ Throttled(i)

\* C21: whenever the queue of some record holds a request,
\* editChannelProcessing is true and a drain timeout is pending.
C21_QueuedImpliesDrainPending ==
  \A c \in Channels :
    (editChannelNameTopicQueue[c] # NoRequest /\
       Len(editChannelNameTopicQueue[c].items) >= 1) =>
      (editChannelProcessing /\ Scheduled >= 1)

\* Requests wait in the queues of both channels after a timeout callback has
\* run, one of the records having expired; the next timeout is pending.
C21_Witness ==
  /\ fired /\ editChannelProcessing /\ Scheduled = 1
  /\ \A c \in Channels :
       /\ editChannelNameTopicQueue[c] # NoRequest
       /\ Len(editChannelNameTopicQueue[c].items) >= 1
  /\ \E c \in Channels : editChannelNameTopicQueue[c].timestamp < 0

\* C22: a step in which a call of editChannel for one channel passes its
\* check, be the call patched or pushed (starting the drain cycle or not),
\* leaves the record of every other channel as it was: not deleted, with the
\* same amount, timestamp and queue.
C22_OtherRecordsUntouched ==
  [][ \A i \in CallIds :
        PermissionGranted(i) =>
          \A c \in Channels \ {Chan(i)} :
            editChannelNameTopicQueue'[c] = editChannelNameTopicQueue[c]
    ]_vars
====
